---- MODULE Spec2Model ----
(***************************************************************************)
(* A model of src/model.py: the forward-inference core of a LLaMA-style    *)
(* decoder (ModelArgs, the rotary table, repeat_kv, SelfAttention with its *)
(* key/value cache, FeedForward, EncoderBlock, Transformers).              *)
(*                                                                         *)
(* A call either returns or raises; every operator that models a function  *)
(* returns a record whose field outcome is "ok" or the name of the Python  *)
(* exception the call raises, and later statements of a function are       *)
(* only reached when the earlier ones returned.                            *)
(*                                                                         *)
(* Tensors are modelled by their shape and, where a claim is about         *)
(* contents, by their elements in row-major order.  Weights are not        *)
(* modelled: hidden states are symbolic terms over them.                   *)
(***************************************************************************)
EXTENDS Integers, Sequences, FiniteSets, TLC

VARIABLES args, attn, ffn, block, model, ret

vars == <<args, attn, ffn, block, model, ret>>

(***************************************************************************)
(* Bounds of the model.                                                    *)
(***************************************************************************)
MaxDim == 5
MaxHeads == 2
MaxLayers == 1
MaxSeqLen == 2
MaxBatch == 2
MaxStepTokens == 2
MaxMultipleOf == 4
MaxFfnMulHalves == 5
MaxKvHeads == 2
MaxHeadDim == 2
MaxRep == 2
TestVocab == 3

(***************************************************************************)
(* Optional[...] fields of ModelArgs.                                      *)
(***************************************************************************)
None == [is_none |-> TRUE, v |-> 0]

Some(x) == [is_none |-> FALSE, v |-> x]

\* The dataclass ModelArgs with its default field values.  device is
\* left out: it selects where tensors live and no shape depends on it.
\* ffn_dim_multiplier is a float; it is held in halves (v = 3 is 1.5).
ModelArgs ==
    [dim |-> 4096, n_layers |-> 32, n_heads |-> 32, n_kv_heads |-> None,
     vocab_size |-> -1, multiple_of |-> 256, ffn_dim_multiplier |-> None,
     max_batch_size |-> 32, max_seq_len |-> 2048]

Raise(e) == [outcome |-> e]

NotBuilt == [built |-> FALSE]

NoCall == [op |-> "none", outcome |-> "ok"]

(***************************************************************************)
(* Dense tensors: a shape and the elements in row-major order.             *)
(***************************************************************************)
RECURSIVE NumEl(_)
NumEl(shape) ==
    IF shape = <<>> THEN 1 ELSE Head(shape) * NumEl(Tail(shape))

\* 0-based flat offset of the 0-based index idx in a contiguous tensor.
RECURSIVE Offset(_, _)
Offset(shape, idx) ==
    IF shape = <<>> THEN 0
    ELSE Head(idx) * NumEl(Tail(shape)) + Offset(Tail(shape), Tail(idx))

\* The 0-based index of flat offset f.
RECURSIVE Unravel(_, _)
Unravel(shape, f) ==
    IF shape = <<>> THEN <<>>
    ELSE <<f \div NumEl(Tail(shape))>>
         \o Unravel(Tail(shape), f % NumEl(Tail(shape)))

At(t, idx) == t.data[Offset(t.shape, idx) + 1]

\* torch.arange(lo, hi, step): its length.
arange_len(lo, hi, step) ==
    Cardinality({i \in lo .. (hi - 1) : (i - lo) % step = 0})

(***************************************************************************)
(* precompute_theta_pos_embeddings(head_dim, seq_len, device)              *)
(* The assert passes when head_dim % 2 is truthy, that is non-zero.        *)
(* The table is torch.outer(m, theta): seq_len rows, one column per        *)
(* element of torch.arange(0, head_dim, 2).                                *)
(***************************************************************************)
precompute_theta_pos_embeddings(head_dim, seq_len) ==
    IF head_dim % 2 = 0
    THEN Raise("AssertionError")
    ELSE [outcome |-> "ok", rows |-> seq_len,
          cols |-> arange_len(0, head_dim, 2)]

(***************************************************************************)
(* apply_rotary_embeddings(x, freqs_complex, device), x of shape xshape.   *)
(* Line 44 reshapes x to (..., -1, 2): a RuntimeError when x has no        *)
(* element (the -1 is ambiguous) or an odd trailing dimension.  Line 46    *)
(* calls torch.unsqueeze with the dimension only and no tensor, which is   *)
(* a TypeError, so lines 48-53 are never reached.                          *)
(***************************************************************************)
apply_rotary_embeddings(xshape) ==
    IF NumEl(xshape) = 0 \/ xshape[Len(xshape)] % 2 # 0
    THEN Raise("RuntimeError")
    ELSE Raise("TypeError")

(***************************************************************************)
(* repeat_kv(x, n_rep), x of shape [batch, seq, n_kv_heads, head_dim].     *)
(* x[:, :, :, None, :].expand(...) repeats along a new axis 3;             *)
(* reshape keeps the row-major order of the elements.                      *)
(***************************************************************************)
repeat_kv_tiled(x, n_rep) ==
    LET batch_size == x.shape[1]
        seq_len == x.shape[2]
        n_kv_heads == x.shape[3]
        head_dim == x.shape[4]
        oshape == <<batch_size, seq_len, n_kv_heads * n_rep, head_dim>>
    IN  IF n_rep = 1 THEN x
        ELSE [shape |-> oshape,
              data |-> [f \in 1 .. NumEl(oshape) |->
                  LET i == Unravel(oshape, f - 1)
                  IN  At(x, <<i[1], i[2], i[3] % n_kv_heads, i[4]>>)]]

repeat_kv(x, n_rep) ==
    LET batch_size == x.shape[1]
        seq_len == x.shape[2]
        n_kv_heads == x.shape[3]
        head_dim == x.shape[4]
        eshape == <<batch_size, seq_len, n_kv_heads, n_rep, head_dim>>
        expanded ==
            [shape |-> eshape,
             data |-> [f \in 1 .. NumEl(eshape) |->
                 LET i == Unravel(eshape, f - 1)
                 IN  At(x, <<i[1], i[2], i[3], i[5]>>)]]
    IN  IF n_rep = 1 THEN x
        ELSE [shape |-> <<batch_size, seq_len, n_kv_heads * n_rep, head_dim>>,
              data |-> expanded.data]

\* An input tensor whose elements are pairwise distinct.
Iota(shape) == [shape |-> shape, data |-> [f \in 1 .. NumEl(shape) |-> f]]

(***************************************************************************)
(* Python slicing and broadcasting, as the cache write and read use them.  *)
(***************************************************************************)
Min(a, b) == IF a < b THEN a ELSE b

Max(a, b) == IF a > b THEN a ELSE b

\* The length of t[lo:hi] along an axis of size n (0 <= lo): slices clamp
\* to the axis and never raise.
SliceLen(lo, hi, n) == Max(0, Min(hi, n) - Min(lo, n))

\* A source axis of size src can be assigned to a target axis of size dst.
Broadcastable(src, dst) == src = dst \/ src = 1

\* One cache entry: the [n_kv_heads, head_dim] slab of a slot and position.
\* torch.zeros fills the buffers; a write stores the projection of the
\* step at position pos (the key after rotation, the value as projected).
ZeroEntry == [src |-> "zeros", pos |-> -1]

Projected(what, pos) == [src |-> what, pos |-> pos]

(***************************************************************************)
(* SelfAttention.__init__(args)                                            *)
(***************************************************************************)
SelfAttention_init(a) ==
    LET n_kv_heads ==
            IF a.n_kv_heads.is_none THEN a.n_heads ELSE a.n_kv_heads.v
        n_heads_q == a.n_heads
        n_rep == n_heads_q \div n_kv_heads
        head_dim == a.dim \div a.n_heads
        buffer ==
            [shape |-> <<a.max_batch_size, a.max_seq_len, n_kv_heads, head_dim>>,
             entries |-> [b \in 1 .. a.max_batch_size |->
                            [p \in 1 .. a.max_seq_len |-> ZeroEntry]]]
    IN  IF n_kv_heads = 0 \/ a.n_heads = 0
        THEN Raise("ZeroDivisionError")
        \* wk reads args.n_kv_heads, not self.n_kv_heads: None * int
        ELSE IF a.n_kv_heads.is_none
        THEN Raise("TypeError")
        ELSE [outcome |-> "ok", built |-> TRUE,
              dim |-> a.dim,
              n_kv_heads |-> n_kv_heads,
              n_heads_q |-> n_heads_q,
              n_rep |-> n_rep,
              head_dim |-> head_dim,
              wq |-> <<a.dim, a.n_heads * head_dim>>,
              wk |-> <<a.dim, a.n_kv_heads.v * head_dim>>,
              wv |-> <<a.dim, a.n_kv_heads.v * head_dim>>,
              wo |-> <<a.n_heads * head_dim, a.dim>>,
              cache_k |-> buffer,
              cache_v |-> buffer]

(***************************************************************************)
(* SelfAttention.forward(x, start_pos, freq_complex), x of shape           *)
(* [batch_size, seq_len, dim].  The result carries the unit's cache        *)
(* buffers as the call leaves them.                                        *)
(***************************************************************************)
SelfAttention_forward(self, batch_size, seq_len, start_pos) ==
    LET unchanged(e) ==
            [outcome |-> e, cache_k |-> self.cache_k, cache_v |-> self.cache_v]
        rq == apply_rotary_embeddings(
                  <<batch_size, seq_len, self.n_heads_q, self.head_dim>>)
        rk == apply_rotary_embeddings(
                  <<batch_size, seq_len, self.n_kv_heads, self.head_dim>>)
        max_batch_size == self.cache_k.shape[1]
        max_seq_len == self.cache_k.shape[2]
        rows == Min(batch_size, max_batch_size)
        cols == SliceLen(start_pos, start_pos + seq_len, max_seq_len)
        write(buf, what) ==
            [buf EXCEPT !.entries =
                [b \in 1 .. max_batch_size |->
                    [p \in 1 .. max_seq_len |->
                        IF b <= rows /\ start_pos < p /\ p <= start_pos + cols
                        THEN Projected(what, p - 1)
                        ELSE buf.entries[b][p]]]]
        cache_k == write(self.cache_k, "xk")
        cache_v == write(self.cache_v, "xv")
        read(buf) ==
            [b \in 1 .. rows |->
                [p \in 1 .. SliceLen(0, start_pos + seq_len, max_seq_len) |->
                    buf.entries[b][p]]]
    IN  IF rq.outcome # "ok" THEN unchanged(rq.outcome)
        ELSE IF rk.outcome # "ok" THEN unchanged(rk.outcome)
        ELSE IF ~(Broadcastable(batch_size, rows) /\ Broadcastable(seq_len, cols))
        THEN unchanged("RuntimeError")
        \* torch.sqrt(self.head_dim) is given an int: the call raises after
        \* the cache has been written and read
        ELSE [outcome |-> "TypeError",
              cache_k |-> cache_k, cache_v |-> cache_v,
              keys |-> read(cache_k), values |-> read(cache_v)]

(***************************************************************************)
(* FeedForward.__init__(args).  int() truncates; the operands are not      *)
(* negative, so it is the floor.  hidden is the rounded width; the three   *)
(* linear maps are built from hidden_dim.                                  *)
(***************************************************************************)
FeedForward_init(a) ==
    LET h0 == 4 * a.dim
        h1 == (2 * h0) \div 3
        hidden_dim ==
            IF a.ffn_dim_multiplier.is_none THEN h1
            ELSE a.ffn_dim_multiplier.v \div 2
    IN  IF a.multiple_of = 0
        THEN Raise("ZeroDivisionError")
        ELSE [outcome |-> "ok", built |-> TRUE,
              hidden_dim |-> hidden_dim,
              hidden |-> a.multiple_of
                         * ((hidden_dim + a.multiple_of - 1) \div a.multiple_of),
              w1 |-> <<a.dim, hidden_dim>>,
              w2 |-> <<hidden_dim, a.dim>>,
              w3 |-> <<a.dim, hidden_dim>>]

(***************************************************************************)
(* Hidden states as terms: RMSNorm, FeedForward.forward and the residual   *)
(* sum are kept uninterpreted, so two states are equal only when they      *)
(* were computed the same way.                                             *)
(***************************************************************************)
RMSNorm_forward(which, x) == <<"norm", which, x>>

FeedForward_forward(x) == <<"feed_forward", x>>

AttentionOut(x, start_pos) == <<"attention", x, start_pos>>

Add(a, b) == <<"add", a, b>>

(***************************************************************************)
(* EncoderBlock.__init__(args): SelfAttention() is called with no          *)
(* argument, a TypeError; lines 173-178 are never reached.                 *)
(***************************************************************************)
EncoderBlock_init(a) ==
    IF a.n_heads = 0
    THEN Raise("ZeroDivisionError")
    ELSE Raise("TypeError")

(***************************************************************************)
(* EncoderBlock.forward(x, start_pos, freqs_complex) on a block self.      *)
(***************************************************************************)
EncoderBlock_forward(self, x, batch_size, seq_len, start_pos) ==
    LET r == SelfAttention_forward(self.attention, batch_size, seq_len, start_pos)
        attention == [self.attention EXCEPT !.cache_k = r.cache_k,
                                            !.cache_v = r.cache_v]
        h == Add(x, AttentionOut(RMSNorm_forward("attention_norm", x), start_pos))
        out == Add(h, FeedForward_forward(RMSNorm_forward("ffn_norm", x)))
    IN  IF r.outcome # "ok"
        THEN [outcome |-> r.outcome, self |-> [self EXCEPT !.attention = attention]]
        ELSE [outcome |-> "ok", out |-> out,
              self |-> [self EXCEPT !.attention = attention]]

\* What section 4.8 of the design asks of a block: h + FeedForward(Norm(h)).
BlockContract(x, start_pos) ==
    LET h == Add(x, AttentionOut(RMSNorm_forward("attention_norm", x), start_pos))
    IN  Add(h, FeedForward_forward(RMSNorm_forward("ffn_norm", h)))

(***************************************************************************)
(* Transformers.__init__(args)                                             *)
(***************************************************************************)
Transformers_init(a) ==
    LET one_block == EncoderBlock_init(a)
        freqs == precompute_theta_pos_embeddings(a.dim \div a.n_heads,
                                                 a.max_seq_len * 2)
    IN  IF a.vocab_size < 0
        THEN Raise("RuntimeError")
        \* the loop appends EncoderBlock(args) n_layers times
        ELSE IF a.n_layers >= 1 /\ one_block.outcome # "ok"
        THEN Raise(one_block.outcome)
        ELSE IF a.n_heads = 0
        THEN Raise("ZeroDivisionError")
        ELSE IF freqs.outcome # "ok"
        THEN Raise(freqs.outcome)
        ELSE [outcome |-> "ok", built |-> TRUE,
              layers |-> [i \in 1 .. a.n_layers |-> one_block],
              vocab_size |-> a.vocab_size,
              freqs_complex |-> freqs]

(***************************************************************************)
(* Transformers.forward(tokens, start_pos), tokens of shape                *)
(* [batch_size, seq_len].  The layers run in order; a layer that raises    *)
(* ends the call, the layers before it having run.                         *)
(***************************************************************************)
RECURSIVE RunLayers(_, _, _, _, _, _)
RunLayers(layers, i, h, batch_size, seq_len, start_pos) ==
    IF i > Len(layers)
    THEN [outcome |-> "ok", h |-> h, layers |-> layers]
    ELSE LET r == EncoderBlock_forward(layers[i], h, batch_size, seq_len, start_pos)
             after == [layers EXCEPT ![i] = r.self]
         IN  IF r.outcome # "ok"
             THEN [outcome |-> r.outcome, layers |-> after]
             ELSE RunLayers(after, i + 1, r.out, batch_size, seq_len, start_pos)

Transformers_forward_first_token_only(self, batch_size, seq_len, start_pos) ==
    LET r == RunLayers(self.layers, 1, <<"tok_embeddings">>, batch_size, 1, start_pos)
    IN  IF r.outcome # "ok"
        THEN [outcome |-> r.outcome, layers |-> r.layers]
        ELSE [outcome |-> "ok", layers |-> r.layers,
              logits |-> <<batch_size, 1, self.vocab_size>>]

Transformers_forward(self, batch_size, seq_len, start_pos) ==
    LET h0 == <<"tok_embeddings">>
        r == RunLayers(self.layers, 1, h0, batch_size, seq_len, start_pos)
    IN  IF seq_len # 1
        THEN [outcome |-> "AssertionError", layers |-> self.layers]
        ELSE IF r.outcome # "ok"
        THEN [outcome |-> r.outcome, layers |-> r.layers]
        ELSE [outcome |-> "ok", layers |-> r.layers,
              logits |-> <<batch_size, seq_len, self.vocab_size>>]

(***************************************************************************)
(* The program: a configuration, the components built from it, and the     *)
(* calls made on them.  ret holds the last call and how it ended.  A       *)
(* constructor that raises leaves the component as it was.                 *)
(***************************************************************************)
Optional(S) == {None} \cup {Some(x) : x \in S}

Configs ==
    {[ModelArgs EXCEPT !.dim = d, !.n_heads = h, !.n_kv_heads = k,
                       !.n_layers = l, !.vocab_size = TestVocab,
                       !.max_batch_size = mb, !.max_seq_len = ms] :
        d \in 1 .. MaxDim, h \in 1 .. MaxHeads, k \in Optional(1 .. MaxHeads),
        l \in 0 .. MaxLayers, mb \in 1 .. MaxBatch, ms \in 1 .. MaxSeqLen}

FeedForwardConfigs ==
    {[ModelArgs EXCEPT !.dim = d, !.multiple_of = m, !.ffn_dim_multiplier = f] :
        d \in 1 .. MaxDim, m \in 1 .. MaxMultipleOf,
        f \in Optional(1 .. MaxFfnMulHalves)}

Unbuilt ==
    /\ attn = NotBuilt
    /\ ffn = NotBuilt
    /\ block = NotBuilt
    /\ model = NotBuilt
    /\ ret = NoCall

Init == args \in Configs /\ Unbuilt

InitFeedForward == args \in FeedForwardConfigs /\ Unbuilt

InitFunctions == args = ModelArgs /\ Unbuilt

New_SelfAttention ==
    LET r == SelfAttention_init(args)
    IN  /\ attn' = IF r.outcome = "ok" THEN r ELSE attn
        /\ ret' = [op |-> "SelfAttention.__init__", outcome |-> r.outcome]
        /\ UNCHANGED <<args, ffn, block, model>>

Call_SelfAttention_forward ==
    /\ attn.built
    /\ \E batch_size \in 1 .. MaxBatch, seq_len \in 1 .. MaxStepTokens,
          start_pos \in 0 .. MaxSeqLen :
          LET r == SelfAttention_forward(attn, batch_size, seq_len, start_pos)
          IN  /\ attn' = [attn EXCEPT !.cache_k = r.cache_k,
                                      !.cache_v = r.cache_v]
              /\ ret' = [op |-> "SelfAttention.forward", outcome |-> r.outcome,
                         batch_size |-> batch_size, seq_len |-> seq_len,
                         start_pos |-> start_pos, result |-> r]
    /\ UNCHANGED <<args, ffn, block, model>>

New_FeedForward ==
    LET r == FeedForward_init(args)
    IN  /\ ffn' = IF r.outcome = "ok" THEN r ELSE ffn
        /\ ret' = [op |-> "FeedForward.__init__", outcome |-> r.outcome]
        /\ UNCHANGED <<args, attn, block, model>>

New_EncoderBlock ==
    LET r == EncoderBlock_init(args)
    IN  /\ block' = IF r.outcome = "ok" THEN r ELSE block
        /\ ret' = [op |-> "EncoderBlock.__init__", outcome |-> r.outcome]
        /\ UNCHANGED <<args, attn, ffn, model>>

New_Transformers ==
    LET r == Transformers_init(args)
    IN  /\ model' = IF r.outcome = "ok" THEN r ELSE model
        /\ ret' = [op |-> "Transformers.__init__", outcome |-> r.outcome]
        /\ UNCHANGED <<args, attn, ffn, block>>

Call_Transformers_forward ==
    /\ model.built
    /\ \E batch_size \in 1 .. MaxBatch, seq_len \in 1 .. MaxStepTokens,
          start_pos \in 0 .. MaxSeqLen :
          LET r == Transformers_forward(model, batch_size, seq_len, start_pos)
          IN  /\ model' = [model EXCEPT !.layers = r.layers]
              /\ ret' = [op |-> "Transformers.forward", outcome |-> r.outcome,
                         batch_size |-> batch_size, seq_len |-> seq_len,
                         start_pos |-> start_pos, result |-> r]
    /\ UNCHANGED <<args, attn, ffn, block>>

Call_precompute_theta_pos_embeddings ==
    /\ \E head_dim \in 1 .. MaxDim, seq_len \in 0 .. (2 * MaxSeqLen) :
          ret' = [op |-> "precompute_theta_pos_embeddings",
                  outcome |-> precompute_theta_pos_embeddings(head_dim, seq_len).outcome,
                  head_dim |-> head_dim, seq_len |-> seq_len,
                  result |-> precompute_theta_pos_embeddings(head_dim, seq_len)]
    /\ UNCHANGED <<args, attn, ffn, block, model>>

Call_apply_rotary_embeddings ==
    /\ \E b \in 1 .. MaxBatch, s \in 1 .. MaxStepTokens, h \in 1 .. MaxHeads,
          d \in 0 .. MaxDim :
          ret' = [op |-> "apply_rotary_embeddings",
                  outcome |-> apply_rotary_embeddings(<<b, s, h, d>>).outcome,
                  xshape |-> <<b, s, h, d>>]
    /\ UNCHANGED <<args, attn, ffn, block, model>>

Call_repeat_kv ==
    /\ \E b \in 1 .. MaxBatch, s \in 1 .. MaxSeqLen, h \in 1 .. MaxKvHeads,
          d \in 1 .. MaxHeadDim, n_rep \in 1 .. MaxRep :
          ret' = [op |-> "repeat_kv", outcome |-> "ok",
                  x |-> Iota(<<b, s, h, d>>), n_rep |-> n_rep,
                  result |-> repeat_kv(Iota(<<b, s, h, d>>), n_rep)]
    /\ UNCHANGED <<args, attn, ffn, block, model>>

Next ==
    \/ New_SelfAttention
    \/ Call_SelfAttention_forward
    \/ New_EncoderBlock
    \/ New_Transformers
    \/ Call_Transformers_forward

NextFunctions ==
    \/ Call_precompute_theta_pos_embeddings
    \/ Call_apply_rotary_embeddings
    \/ Call_repeat_kv

\* The attention unit, the decoder block and the model built from one
\* configuration, and the decode steps on them.
Spec == Init /\ [][Next]_vars

\* The feed-forward unit under every rounding granularity and multiplier.
SpecFeedForward == InitFeedForward /\ [][New_FeedForward]_vars

\* The module's functions applied to inputs of every bounded shape.
SpecFunctions == InitFunctions /\ [][NextFunctions]_vars

(***************************************************************************)
(* The claims.                                                             *)
(***************************************************************************)
\* A decode step the design accepts: one token, a slot count and a position
\* inside the cache.
ValidStep ==
    /\ ret.seq_len = 1
    /\ ret.batch_size <= args.max_batch_size
    /\ ret.start_pos + ret.seq_len <= args.max_seq_len

\* C1: a valid single-token step of the attention unit at start_pos
\* completes, and the history it reads has, for every batch slot, exactly
\* start_pos + 1 entries, each the entry the cache holds at that position,
\* the last one the rotated key and the value this call wrote.
C1_HistoryIsWhatWasWritten ==
    (ret.op = "SelfAttention.forward" /\ ValidStep) =>
        /\ ret.outcome = "ok"
        /\ \A b \in 1 .. ret.batch_size :
            /\ Len(ret.result.keys[b]) = ret.start_pos + 1
            /\ Len(ret.result.values[b]) = ret.start_pos + 1
            /\ ret.result.keys[b][ret.start_pos + 1]
                   = Projected("xk", ret.start_pos)
            /\ ret.result.values[b][ret.start_pos + 1]
                   = Projected("xv", ret.start_pos)
            /\ \A p \in 1 .. (ret.start_pos + 1) :
                /\ ret.result.keys[b][p] = attn.cache_k.entries[b][p]
                /\ ret.result.values[b][p] = attn.cache_v.entries[b][p]

\* C2: a Transformers.forward call whose seq_len is not 1 ends in the
\* assertion failure of its precondition: it returns no logits, runs no
\* decoder block and leaves every layer's cache (and the model, and the
\* attention unit) as it was.
C2_SeqLenPreconditionFailsFast ==
    [][(ret'.op = "Transformers.forward" /\ ret'.seq_len # 1) =>
          /\ ret'.result = [outcome |-> "AssertionError", layers |-> model.layers]
          /\ ret'.outcome = "AssertionError"
          /\ model' = model
          /\ attn' = attn]_vars

C2_Witness ==
    /\ model.built
    /\ ret.op = "Transformers.forward"
    /\ ret.seq_len = 2
    /\ ret.outcome = "AssertionError"

\* C3: a step whose position overflows the cache (start_pos + seq_len >
\* max_seq_len), on the model or on an attention unit, fails: it never
\* completes.
C3_PositionOverflowFails ==
    (/\ ret.op \in {"Transformers.forward", "SelfAttention.forward"}
     /\ ret.start_pos + ret.seq_len > args.max_seq_len) =>
        ret.outcome # "ok"

\* C4: constructing the attention unit fails when dim is not divisible by
\* n_heads or n_heads is not a multiple of n_kv_heads, and every unit that
\* was constructed has head_dim * n_heads = dim and
\* n_rep * n_kv_heads = n_heads.
C4_ConfigInvariantEnforced ==
    /\ (/\ ret.op = "SelfAttention.__init__"
        /\ \/ args.dim % args.n_heads # 0
           \/ (~args.n_kv_heads.is_none
               /\ args.n_heads % args.n_kv_heads.v # 0)) =>
           ret.outcome # "ok"
    /\ attn.built =>
        /\ attn.head_dim * attn.n_heads_q = attn.dim
        /\ attn.n_rep * attn.n_kv_heads = attn.n_heads_q

\* C5: precompute_theta_pos_embeddings returns a table of seq_len rows by
\* head_dim / 2 columns for every even head_dim and fails for every odd
\* head_dim.
C5_RotaryTableEvenHeadDim ==
    ret.op = "precompute_theta_pos_embeddings" =>
        IF ret.head_dim % 2 = 0
        THEN /\ ret.outcome = "ok"
             /\ ret.result.rows = ret.seq_len
             /\ 2 * ret.result.cols = ret.head_dim
        ELSE ret.outcome # "ok"

\* C6: with n_kv_heads unset, constructing the attention unit succeeds
\* with n_heads key/value heads: n_rep = 1, key and value projections of
\* width n_heads * head_dim, caches of shape
\* [max_batch_size, max_seq_len, n_heads, head_dim].
C6_KvHeadsDefaultToQueryHeads ==
    (ret.op = "SelfAttention.__init__" /\ args.n_kv_heads.is_none) =>
        /\ ret.outcome = "ok"
        /\ attn.built
        /\ attn.n_kv_heads = args.n_heads
        /\ attn.n_rep = 1
        /\ attn.wk[2] = args.n_heads * attn.head_dim
        /\ attn.wv[2] = args.n_heads * attn.head_dim
        /\ attn.cache_k.shape = <<args.max_batch_size, args.max_seq_len,
                                  args.n_heads, attn.head_dim>>
        /\ attn.cache_v.shape = attn.cache_k.shape

\* C7: once a decoder block has been asked for, it exists and its forward
\* returns, for every input x, h + FeedForward(ffn_norm(h)) with
\* h = x + Attention(attention_norm(x)).
C7_FeedForwardSeesPostAttentionState ==
    ret.op = "EncoderBlock.__init__" =>
        /\ ret.outcome = "ok"
        /\ block.built
        /\ \A x \in {<<"tok_embeddings">>, <<"hidden">>} :
            \A start_pos \in 0 .. (args.max_seq_len - 1) :
                LET r == EncoderBlock_forward(block, x, 1, 1, start_pos)
                IN  r.outcome = "ok" /\ r.out = BlockContract(x, start_pos)

\* The base width of the feed-forward hidden layer: int(2 * (4 * dim) / 3),
\* or int(ffn_dim_multiplier) when the multiplier is set.
BaseWidth ==
    IF args.ffn_dim_multiplier.is_none
    THEN (2 * (4 * args.dim)) \div 3
    ELSE args.ffn_dim_multiplier.v \div 2

\* C8: the width of w1, w2 and w3 is the base width rounded up to the
\* nearest multiple of multiple_of.
C8_HiddenWidthRoundedUp ==
    ffn.built =>
        \A width \in {ffn.w1[2], ffn.w2[1], ffn.w3[2]} :
            /\ width % args.multiple_of = 0
            /\ width >= BaseWidth
            /\ width < BaseWidth + args.multiple_of

\* C9: repeat_kv returns x itself when n_rep = 1; otherwise the result has
\* shape [batch, seq, n_kv_heads * n_rep, head_dim] and its head j is
\* source head j div n_rep, element for element.
C9_RepeatKvInterleaves ==
    ret.op = "repeat_kv" =>
        IF ret.n_rep = 1
        THEN ret.result = ret.x
        ELSE /\ ret.result.shape =
                    <<ret.x.shape[1], ret.x.shape[2],
                      ret.x.shape[3] * ret.n_rep, ret.x.shape[4]>>
             /\ Len(ret.result.data) = NumEl(ret.result.shape)
             /\ \A b \in 0 .. (ret.x.shape[1] - 1), s \in 0 .. (ret.x.shape[2] - 1),
                   j \in 0 .. (ret.x.shape[3] * ret.n_rep - 1),
                   d \in 0 .. (ret.x.shape[4] - 1) :
                   At(ret.result, <<b, s, j, d>>)
                       = At(ret.x, <<b, s, j \div ret.n_rep, d>>)

C9_Witness ==
    /\ ret.op = "repeat_kv"
    /\ ret.n_rep >= 2
    /\ ret.x.shape[3] >= 2
    /\ ret.x.shape[4] >= 2
    /\ At(ret.result, <<0, 0, 1, 0>>) = At(ret.x, <<0, 0, 0, 0>>)
    /\ At(ret.result, <<0, 0, ret.n_rep, 0>>) = At(ret.x, <<0, 0, 1, 0>>)

\* C10: a valid step with batch size B at start_pos = p completes and
\* writes the unit's cache_k and cache_v at the entries [slot, p] with
\* slot < B and nowhere else, the buffers keeping their shape.
C10_StepWritesOnlyItsEntries ==
    [][(ret'.op = "SelfAttention.forward" /\ ValidStep') =>
          /\ ret'.outcome = "ok"
          /\ attn'.cache_k.shape = attn.cache_k.shape
          /\ attn'.cache_v.shape = attn.cache_v.shape
          /\ \A b \in 1 .. args.max_batch_size, p \in 1 .. args.max_seq_len :
                IF b <= ret'.batch_size /\ p = ret'.start_pos + 1
                THEN /\ attn'.cache_k.entries[b][p] = Projected("xk", p - 1)
                     /\ attn'.cache_v.entries[b][p] = Projected("xv", p - 1)
                ELSE /\ attn'.cache_k.entries[b][p] = attn.cache_k.entries[b][p]
                     /\ attn'.cache_v.entries[b][p] = attn.cache_v.entries[b][p]]_vars

====
